---- MODULE Spec2Model ----
(***************************************************************************)
(* Model of get_revision_history.py: the paginated harvest of an article's *)
(* revision history into a streamed JSON array (pass 1), the chunked,      *)
(* parallel cleaning of that file (pass 2), the final dump, and the pure   *)
(* text and timestamp functions they use; and of get_latest_revisions of   *)
(* get_latest_revision_text.py.                                            *)
(*                                                                         *)
(* Texts are sequences of one-character strings.  The persisted file is a  *)
(* sequence of the pieces the code writes: "[\n", a dumped record, ",\n"   *)
(* and "\n]".                                                              *)
(***************************************************************************)
EXTENDS Integers, Sequences, FiniteSets, TLC

VARIABLES
    pc,                \* position of the driver (or of the pure-function harness)
    tz,                \* the machine's local time zone
    requests,          \* number of requests issued so far
    rvcontinue,        \* params['rvcontinue'] (-1 while the key is absent)
    data,              \* the response being processed
    revisions_data,    \* the filtered revisions of the current page
    revisions_written, \* progress counter of pass 1
    f,                 \* content of <title>_<lang>.json, as written pieces
    f_open,            \* the modes the file is open in: "w" (pass 1), "r" (pass 2)
    api_log,           \* history: every revision the API returned, in order
    run,               \* 1: the script's run; 2: a later call of pass 2 alone
    parser,            \* ijson's position in f and its grammar state
    chunk,             \* the chunk read last
    revisions,         \* process_chunk(chunk)
    tasks,             \* executor.map: state of each submitted call
    results,           \* executor.map: result of each finished call
    order,             \* history: indexes of the calls in completion order
    clean_results,     \* list(executor.map(...)) of the chunk gathered last
    clean_revisions,   \* the list pass 2 accumulates
    chunks_done,       \* number of chunks fully processed
    final,             \* <title>_<lang>_clean.json
    error,             \* the exception that ended the run ("none" if none)
    req_log,           \* history: per request, the token sent and the token got
    chunks_read,       \* history: the chunks the reader has yielded, in order
    doc,               \* pure-function harness: the input
    out1,              \* pure-function harness: first result
    out2               \* pure-function harness: second result

vars == <<pc, tz, requests, rvcontinue, data, revisions_data,
          revisions_written, f, f_open, api_log, run, parser, chunk,
          revisions, tasks, results, order, clean_results, clean_revisions,
          chunks_done, final, error, req_log, chunks_read, doc, out1, out2>>

(***************************************************************************)
(* Bounds of the model.                                                    *)
(***************************************************************************)
MaxRevisions == 4   \* revisions the API holds for the article
MaxPages == 3       \* requests of one harvest
MaxLen == 5         \* length of the texts given to the text functions
chunk_size == 3     \* the code reads 100 records per chunk; scaled down
N_WORKERS == 2      \* the code starts 4 workers; scaled down

Digits == {"0", "1", "2", "3", "4", "5", "6", "7", "8", "9"}

RECURSIVE Flatten(_)
Flatten(ss) == IF ss = <<>> THEN <<>> ELSE Head(ss) \o Flatten(Tail(ss))

(***************************************************************************)
(* clean_doc                                                               *)
(***************************************************************************)

\* Variant of Find with str.rfind: the greatest index where substr occurs.
FindLast(d, substr) ==
    LET n == Len(substr)
        hits == {i \in 1..(Len(d) - n + 1) : SubSeq(d, i, i + n - 1) = substr}
    IN  IF hits = {} THEN 0
        ELSE CHOOSE i \in hits : \A j \in hits : i >= j

\* str.find: the least 1-based index where substr occurs in d, 0 if none
\* (Python's -1).
Find(d, substr) ==
    LET n == Len(substr)
        hits == {i \in 1..(Len(d) - n + 1) : SubSeq(d, i, i + n - 1) = substr}
    IN  IF hits = {} THEN 0
        ELSE CHOOSE i \in hits : \A j \in hits : i <= j

\* The second component of the pair the code returns (the first is unused).
remove_everything_after(d, substr) ==
    LET substr_idx == Find(d, substr)
    IN  IF substr_idx # 0 THEN SubSeq(d, 1, substr_idx - 1) ELSE d

NotesMarker == <<"N", "o", "t", "e", "s", "\n">>
LinksMarker == <<"E", "x", "t", "e", "r", "n", "a", "l", " ",
                 "l", "i", "n", "k", "s", "\n">>
RefsMarker == <<"R", "e", "f", "e", "r", "e", "n", "c", "e", "s", "\n">>

\* Variant of Truncate that leaves the references in.
TruncateKeepsRefs(d) ==
    remove_everything_after(
        remove_everything_after(d, NotesMarker), LinksMarker)

Truncate(d) ==
    remove_everything_after(
        remove_everything_after(
            remove_everything_after(d, NotesMarker), LinksMarker), RefsMarker)

IsSpace(c) == c \in {" ", "\n"}

\* WhitespaceTokenizer().tokenize: the maximal runs of non-whitespace.
RECURSIVE TokenizeFrom(_, _, _)
TokenizeFrom(d, i, cur) ==
    IF i > Len(d) THEN (IF cur = <<>> THEN <<>> ELSE <<cur>>)
    ELSE IF IsSpace(d[i])
         THEN (IF cur = <<>> THEN <<>> ELSE <<cur>>) \o TokenizeFrom(d, i + 1, <<>>)
         ELSE TokenizeFrom(d, i + 1, Append(cur, d[i]))

Tokenize(d) == TokenizeFrom(d, 1, <<>>)

\* str.isnumeric on the model's alphabet: non-empty and all digits.
IsNumeric(token) ==
    /\ token # <<>>
    /\ \A i \in 1..Len(token) : token[i] \in Digits

\* " ".join(tokens)
RECURSIVE Join(_)
Join(tokens) ==
    IF tokens = <<>> THEN <<>>
    ELSE IF Len(tokens) = 1 THEN Head(tokens)
    ELSE Head(tokens) \o <<" ">> \o Join(Tail(tokens))

RemoveNumbers(d) ==
    Join(SelectSeq(Tokenize(d), LAMBDA token : ~IsNumeric(token)))

\* The end of a match of \[[0-9]+\] that starts at i, 0 if none starts there.
CitationEnd(d, i) ==
    IF i > Len(d) \/ d[i] # "[" THEN 0
    ELSE LET ends == {j \in (i + 2)..Len(d) :
                         /\ d[j] = "]"
                         /\ \A k \in (i + 1)..(j - 1) : d[k] \in Digits}
         IN  IF ends = {} THEN 0 ELSE CHOOSE j \in ends : \A k \in ends : j <= k

\* re.sub(citation_regex, '', doc): leftmost, non-overlapping matches, one pass.
RECURSIVE RemoveCitationsFrom(_, _)
RemoveCitationsFrom(d, i) ==
    IF i > Len(d) THEN <<>>
    ELSE IF CitationEnd(d, i) # 0
         THEN RemoveCitationsFrom(d, CitationEnd(d, i) + 1)
         ELSE <<d[i]>> \o RemoveCitationsFrom(d, i + 1)

RemoveCitations(d) == RemoveCitationsFrom(d, 1)

\* Lines 52-63 of clean_doc: what the spec calls steps 3 and 4.
Steps34(d) == RemoveCitations(RemoveNumbers(d))

clean_doc(d) == Steps34(Truncate(d))

(***************************************************************************)
(* Timestamps                                                              *)
(***************************************************************************)

DigitChar(n) == CASE n = 0 -> "0" [] n = 1 -> "1" [] n = 2 -> "2" [] n = 3 -> "3"
                  [] n = 4 -> "4" [] n = 5 -> "5" [] n = 6 -> "6" [] n = 7 -> "7"
                  [] n = 8 -> "8" [] n = 9 -> "9"

DigitVal(c) == CHOOSE n \in 0..9 : DigitChar(n) = c

Num2(n) == <<DigitChar(n \div 10), DigitChar(n % 10)>>

Num4(n) == <<DigitChar(n \div 1000), DigitChar((n \div 100) % 10),
             DigitChar((n \div 10) % 10), DigitChar(n % 10)>>

\* The API's rendering of an instant of UTC, e.g. 2020-01-01T00:00:00Z.
ApiTimestamp(Y, m, d, H, M, S) ==
    Num4(Y) \o <<"-">> \o Num2(m) \o <<"-">> \o Num2(d) \o <<"T">>
        \o Num2(H) \o <<":">> \o Num2(M) \o <<":">> \o Num2(S) \o <<"Z">>

RECURSIVE ParseInt(_)
ParseInt(cs) ==
    IF cs = <<>> THEN 0
    ELSE 10 * ParseInt(SubSeq(cs, 1, Len(cs) - 1)) + DigitVal(cs[Len(cs)])

\* datetime.strptime(timestamp, "%Y-%m-%dT%H:%M:%SZ"): a naive datetime, the
\* trailing Z is matched as a literal and carries no zone.
strptime(t) ==
    [year |-> ParseInt(SubSeq(t, 1, 4)), month |-> ParseInt(SubSeq(t, 6, 7)),
     day |-> ParseInt(SubSeq(t, 9, 10)), hour |-> ParseInt(SubSeq(t, 12, 13)),
     minute |-> ParseInt(SubSeq(t, 15, 16)), second |-> ParseInt(SubSeq(t, 18, 19))]

IsLeap(y) == y % 4 = 0 /\ (y % 100 # 0 \/ y % 400 = 0)

DaysBeforeYear(y) ==
    (y - 1) * 365 + (y - 1) \div 4 - (y - 1) \div 100 + (y - 1) \div 400

DaysInMonth(y, m) ==
    IF m = 2 THEN (IF IsLeap(y) THEN 29 ELSE 28)
    ELSE IF m \in {4, 6, 9, 11} THEN 30 ELSE 31

RECURSIVE DaysBeforeMonth(_, _)
DaysBeforeMonth(y, m) ==
    IF m = 1 THEN 0 ELSE DaysBeforeMonth(y, m - 1) + DaysInMonth(y, m - 1)

EpochOrdinal == DaysBeforeYear(1970) + 1

\* Seconds from 1970-01-01T00:00:00 to the wall-clock fields of dt, counted
\* in one and the same zone.
WallSeconds(dt) ==
    (DaysBeforeYear(dt.year) + DaysBeforeMonth(dt.year, dt.month) + dt.day
        - EpochOrdinal) * 86400
    + dt.hour * 3600 + dt.minute * 60 + dt.second

\* The instant a timestamp of the API names, in seconds since the epoch.
InstantOf(t) == WallSeconds(strptime(t))

\* A time zone: its offsets from UTC, in seconds, outside and inside the
\* periods of daylight saving time, each period from an instant to an instant.
UTC == [std |-> 0, dst |-> 0, periods |-> {}]
Bogota == [std |-> -18000, dst |-> -18000, periods |-> {}]
Madrid ==
    [std |-> 3600, dst |-> 7200,
     periods |-> {<<InstantOf(ApiTimestamp(2020, 3, 29, 1, 0, 0)),
                    InstantOf(ApiTimestamp(2020, 10, 25, 1, 0, 0))>>,
                  <<InstantOf(ApiTimestamp(2021, 3, 28, 1, 0, 0)),
                    InstantOf(ApiTimestamp(2021, 10, 31, 1, 0, 0))>>}]

UtcOffset(zone, u) ==
    IF \E p \in zone.periods : p[1] <= u /\ u < p[2] THEN zone.dst ELSE zone.std

\* The wall-clock seconds the zone shows at the instant u.
local(zone, u) == u + UtcOffset(zone, u)

\* datetime.timestamp() of a naive datetime (fold = 0): the fields are read
\* as local time, and the instant that shows them is looked for; a time the
\* zone skips is given the offset in force before the skip.
naive_timestamp(dt, zone) ==
    LET t == WallSeconds(dt)
        a == local(zone, t) - t
        u1 == t - a
        t1 == local(zone, u1)
        b == IF t1 = t THEN local(zone, u1 - 86400) - (u1 - 86400) ELSE t1 - u1
        u2 == t - b
        t2 == local(zone, u2)
    IN  IF t1 = t /\ a = b THEN u1
        ELSE IF t2 = t THEN u2
        ELSE IF t1 = t THEN u1
        ELSE IF u1 > u2 THEN u1 ELSE u2

unix_timestamp(t, zone) == naive_timestamp(strptime(t), zone)

(***************************************************************************)
(* The revision API (the environment of pass 1)                            *)
(***************************************************************************)

\* The zones the machine may be set to.
Zones == {UTC, Bogota, Madrid}

T1 == ApiTimestamp(2020, 3, 29, 2, 30, 0)
T2 == ApiTimestamp(2020, 3, 29, 3, 0, 0)
ApiTimes == {T1, T2}

\* The wikitext of the k-th revision of the article: distinct per revision,
\* free of markup, with a citation and a number for clean_doc to remove.
Content(k) == [i \in 1..k |-> "a"] \o <<" ", "[", "1", "]", " ", "7">>

\* What the API may return as its k-th revision: timestamp and content, or
\* one of the two keys missing (hidden or suppressed revisions).
ApiRevisions(k) ==
    {[keys |-> {"timestamp", "*"}, timestamp |-> t, content |-> Content(k)] :
        t \in ApiTimes}
    \cup {[keys |-> {"timestamp"}, timestamp |-> t, content |-> <<>>] :
        t \in ApiTimes}
    \cup {[keys |-> {"*"}, timestamp |-> <<>>, content |-> Content(k)]}

\* 'rvdir': 'newer' (line 102): the API lists the revisions from older to
\* newer, so no timestamp of revs is earlier than one before it.
Chronological(revs) ==
    \A i, j \in 1..Len(revs) :
        (i < j /\ "timestamp" \in revs[i].keys /\ "timestamp" \in revs[j].keys)
            => InstantOf(revs[i].timestamp) <= InstantOf(revs[j].timestamp)

\* The pages of n revisions that follow the first `start` revisions.
RECURSIVE PagesFrom(_, _)
PagesFrom(start, n) ==
    IF n = 0 THEN {<<>>}
    ELSE {<<r>> \o rest : r \in ApiRevisions(start + 1),
                          rest \in PagesFrom(start + 1, n - 1)}

(***************************************************************************)
(* Pass 1: get_all_revision_ids and write_revisions                        *)
(***************************************************************************)

NoEntry == [timestamp |-> 0, content |-> <<>>]
HeadPiece == [k |-> "head", e |-> NoEntry]   \* "[\n"
SepPiece == [k |-> "sep", e |-> NoEntry]     \* ",\n"
TailPiece == [k |-> "tail", e |-> NoEntry]   \* "\n]"
RecPiece(entry) == [k |-> "rec", e |-> entry]

\* Lines 114-122: keep the revisions that have both keys.
FilterRevisions(revs) ==
    LET kept == SelectSeq(revs, LAMBDA revision :
                    \A key \in {"timestamp", "*"} : key \in revision.keys)
    IN  [i \in 1..Len(kept) |->
            [timestamp |-> kept[i].timestamp, content |-> kept[i].content]]

\* Lines 68-74.
revision_entry(revision, zone) ==
    [timestamp |-> unix_timestamp(revision.timestamp, zone),
     content |-> revision.content]

\* write_revisions with the test of line 77 guarding the dump as well: the
\* last entry of each page is not written.
write_revisions_skip_last(revs, zone) ==
    Flatten([i \in 1..(Len(revs) - 1) |->
        <<RecPiece(revision_entry(revs[i], zone)), SepPiece>>])

\* What write_revisions appends to the file: every entry, and ",\n" after
\* each but the last of the page.
write_revisions(revs, zone) ==
    Flatten([i \in 1..Len(revs) |->
        <<RecPiece(revision_entry(revs[i], zone))>>
            \o (IF i - 1 < Len(revs) - 1 THEN <<SepPiece>> ELSE <<>>)])

\* Lines 129-133 with the tail written after every page.
page_mark_always_tail(has_continue) == TailPiece

\* Lines 129-133: what follows the records of a page.
page_mark(has_continue) == IF has_continue THEN SepPiece ELSE TailPiece

NoData == [revisions |-> <<>>, continue |-> -1]

\* Lines 83-84.
OpenFile ==
    /\ pc = "start"
    /\ f' = <<HeadPiece>>
    /\ f_open' = f_open \cup {"w"}
    /\ pc' = "request"
    /\ UNCHANGED <<req_log, chunks_read, tz, requests, rvcontinue, data, revisions_data,
                   revisions_written, api_log, run, parser, chunk, revisions,
                   tasks, results, order, clean_results, clean_revisions,
                   chunks_done, final, error, doc, out1, out2>>

\* Lines 107-124: one request, answered with the revisions that follow the
\* continuation token, and the filtering of the page.
Request ==
    /\ pc = "request"
    /\ requests < MaxPages
    /\ LET start == IF rvcontinue = -1 THEN 0 ELSE rvcontinue
       IN  \E n \in 1..(MaxRevisions - start) :
           \E revs \in PagesFrom(start, n) :
           \E more \in BOOLEAN :
              /\ more => (start + n < MaxRevisions /\ requests + 1 < MaxPages)
              /\ Chronological(api_log \o revs)
              /\ data' = [revisions |-> revs,
                          continue |-> IF more THEN start + n ELSE -1]
              /\ revisions_data' = FilterRevisions(revs)
              /\ revisions_written' =
                     revisions_written + Len(FilterRevisions(revs))
              /\ api_log' = api_log \o revs
    /\ requests' = requests + 1
    /\ req_log' = Append(req_log, [sent |-> rvcontinue, got |-> data'.continue])
    /\ pc' = "write"
    /\ UNCHANGED <<chunks_read, tz, rvcontinue, f, f_open, run, parser, chunk, revisions,
                   tasks, results, order, clean_results, clean_revisions,
                   chunks_done, final, error, doc, out1, out2>>

\* Variant of RequestFails that swallows the error and asks again.
RequestFailsRetries ==
    /\ pc = "request"
    /\ requests < MaxPages
    /\ \E e \in {"JSONDecodeError", "KeyError"} : error' = e
    /\ requests' = requests + 1
    /\ req_log' = Append(req_log, [sent |-> rvcontinue, got |-> -1])
    /\ pc' = "request"
    /\ UNCHANGED <<chunks_read, tz, rvcontinue, data, revisions_data, revisions_written, f,
                   f_open, api_log, run, parser, chunk, revisions, tasks, results,
                   order, clean_results, clean_revisions, chunks_done, final,
                   doc, out1, out2>>

\* Lines 108-112 on a response that is no JSON or lacks 'query', 'pages' or
\* 'revisions': the exception leaves the with block, which closes the file.
RequestFails ==
    /\ pc = "request"
    /\ requests < MaxPages
    /\ \E e \in {"JSONDecodeError", "KeyError"} : error' = e
    /\ requests' = requests + 1
    /\ req_log' = Append(req_log, [sent |-> rvcontinue, got |-> -1])
    /\ f_open' = f_open \ {"w"}
    /\ pc' = "failed"
    /\ UNCHANGED <<chunks_read, tz, rvcontinue, data, revisions_data, revisions_written, f,
                   api_log, run, parser, chunk, revisions, tasks, results,
                   order, clean_results, clean_revisions, chunks_done, final,
                   doc, out1, out2>>

\* Line 126.
WriteRevisions ==
    /\ pc = "write"
    /\ f' = f \o write_revisions(revisions_data, tz)
    /\ pc' = "mark"
    /\ UNCHANGED <<req_log, chunks_read, tz, requests, rvcontinue, data, revisions_data,
                   revisions_written, f_open, api_log, run, parser, chunk,
                   revisions, tasks, results, order, clean_results,
                   clean_revisions, chunks_done, final, error, doc, out1, out2>>

\* Variant of Continue that does not attach the token to the next request.
ContinueWithoutToken ==
    /\ pc = "mark"
    /\ data.continue # -1
    /\ f' = Append(f, page_mark(TRUE))
    /\ pc' = "request"
    /\ UNCHANGED <<req_log, chunks_read, tz, requests, rvcontinue, data, revisions_data,
                   revisions_written, f_open, api_log, run, parser, chunk, revisions,
                   tasks, results, order, clean_results, clean_revisions, chunks_done,
                   final, error, doc, out1, out2>>

\* Lines 129-131.
Continue ==
    /\ pc = "mark"
    /\ data.continue # -1
    /\ rvcontinue' = data.continue
    /\ f' = Append(f, page_mark(TRUE))
    /\ pc' = "request"
    /\ UNCHANGED <<req_log, chunks_read, tz, requests, data, revisions_data, revisions_written,
                   f_open, api_log, run, parser, chunk, revisions, tasks,
                   results, order, clean_results, clean_revisions, chunks_done,
                   final, error, doc, out1, out2>>

\* Variant of Finish that leaves the file open for writing after the tail.
FinishLeavesOpen ==
    /\ pc = "mark"
    /\ data.continue = -1
    /\ f' = Append(f, page_mark(FALSE))
    /\ pc' = "harvested"
    /\ UNCHANGED <<req_log, chunks_read, tz, requests, rvcontinue, data, revisions_data,
                   revisions_written, f_open, api_log, run, parser, chunk, revisions,
                   tasks, results, order, clean_results, clean_revisions,
                   chunks_done, final, error, doc, out1, out2>>

\* Lines 132-135, and the end of the with block.
Finish ==
    /\ pc = "mark"
    /\ data.continue = -1
    /\ f' = Append(f, page_mark(FALSE))
    /\ f_open' = f_open \ {"w"}
    /\ pc' = "harvested"
    /\ UNCHANGED <<req_log, chunks_read, tz, requests, rvcontinue, data, revisions_data,
                   revisions_written, api_log, run, parser, chunk, revisions,
                   tasks, results, order, clean_results, clean_revisions,
                   chunks_done, final, error, doc, out1, out2>>

\* The process is killed during the harvest: the file keeps what was written,
\* which inside write_revisions is any part of the page's pieces.
Interrupt ==
    /\ pc \in {"request", "write", "mark"}
    /\ IF pc = "write"
       THEN \E n \in 0..Len(write_revisions(revisions_data, tz)) :
               f' = f \o SubSeq(write_revisions(revisions_data, tz), 1, n)
       ELSE f' = f
    /\ f_open' = f_open \ {"w"}
    /\ error' = "killed"
    /\ pc' = "interrupted"
    /\ UNCHANGED <<req_log, chunks_read, tz, requests, rvcontinue, data, revisions_data,
                   revisions_written, api_log, run, parser, chunk, revisions,
                   tasks, results, order, clean_results, clean_revisions,
                   chunks_done, final, doc, out1, out2>>

(***************************************************************************)
(* Pass 2: clean_revisions_in_batches                                      *)
(***************************************************************************)

\* ijson's grammar of a top-level array: the state after reading a piece of
\* kind k in state st ("error" when k is no legal continuation).
parse_piece(st, k) ==
    CASE st = "start" /\ k = "head" -> "first"
      [] st = "first" /\ k = "rec" -> "value"
      [] st = "first" /\ k = "tail" -> "end"
      [] st = "value" /\ k = "sep" -> "sep"
      [] st = "value" /\ k = "tail" -> "end"
      [] st = "sep" /\ k = "rec" -> "value"
      [] OTHER -> "error"

\* A parser that takes the end of the input for the end of the array.
parse_eof_lenient(st) == "stop"

\* ijson at the end of the input: the iteration stops after the closing
\* bracket, and the input is incomplete anywhere else.
parse_eof(st) == IF st = "end" THEN "stop" ELSE "IncompleteJSONError"

\* list(itertools.islice(json_parser, n)): the next n items of the array,
\* fewer when it ends, or the exception the parser raises on the way.
RECURSIVE ReadItems(_, _, _, _)
ReadItems(file, p, n, acc) ==
    IF n = 0 \/ p.st = "done"
    THEN [items |-> acc, parser |-> p, err |-> "none"]
    ELSE IF p.pos > Len(file)
    THEN IF parse_eof(p.st) = "stop"
         THEN [items |-> acc, parser |-> [p EXCEPT !.st = "done"], err |-> "none"]
         ELSE [items |-> acc, parser |-> p, err |-> parse_eof(p.st)]
    ELSE LET st2 == parse_piece(p.st, file[p.pos].k)
             p2 == [pos |-> p.pos + 1, st |-> st2]
         IN  IF st2 = "error"
             THEN [items |-> acc, parser |-> p, err |-> "JSONError"]
             ELSE IF file[p.pos].k = "rec"
             THEN ReadItems(file, p2, n - 1, Append(acc, file[p.pos].e))
             ELSE ReadItems(file, p2, n, acc)

\* The unread part of the file holds a syntax error.  ijson parses a whole
\* read buffer before it hands out the buffer's items, so such an error may
\* surface before items that precede it in the file.
SyntaxErrorAhead(file, p) ==
    ReadItems(file, p, Len(file) + 1, <<>>).err = "JSONError"

\* Variant of SortedByTimestamp that is not stable: an entry goes before the
\* entries of equal timestamp that precede it in the chunk.
RECURSIVE SortedByTimestampUnstable(_)
SortedByTimestampUnstable(c) ==
    IF c = <<>> THEN <<>>
    ELSE LET init == SortedByTimestampUnstable(SubSeq(c, 1, Len(c) - 1))
             x == c[Len(c)]
             before == SelectSeq(init, LAMBDA y : y.timestamp < x.timestamp)
             after == SelectSeq(init, LAMBDA y : y.timestamp >= x.timestamp)
         IN  before \o <<x>> \o after

\* sorted(chunk, key=lambda x: x["timestamp"]): stable.
RECURSIVE SortedByTimestamp(_)
SortedByTimestamp(c) ==
    IF c = <<>> THEN <<>>
    ELSE LET init == SortedByTimestamp(SubSeq(c, 1, Len(c) - 1))
             x == c[Len(c)]
             before == SelectSeq(init, LAMBDA y : y.timestamp <= x.timestamp)
             after == SelectSeq(init, LAMBDA y : y.timestamp > x.timestamp)
         IN  before \o <<x>> \o after

process_chunk(c) ==
    LET s == SortedByTimestamp(c)
    IN  [i \in 1..Len(s) |-> <<s[i].timestamp, s[i].content>>]

\* mwparserfromhell.parse(content).strip_code() on text that holds no markup.
strip_code(content) == content

clean_revision(timestamp_content) ==
    <<timestamp_content[1], clean_doc(strip_code(timestamp_content[2]))>>

\* The results taken as the workers finish (as_completed) instead.
map_results_as_completed(res, ord) == [i \in 1..Len(ord) |-> res[ord[i]]]

\* list(executor.map(...)): the results in the order of the calls, whatever
\* the order ord in which the workers finished.
map_results(res, ord) == [i \in 1..Len(ord) |-> res[i]]

NoResult == <<0, <<>>>>
NoFinal == [state |-> "absent", content |-> <<>>]

\* Line 148-153.  The locals of get_all_revision_ids (and the history of its
\* requests) are gone by the time pass 2 opens the file.
OpenForReading ==
    /\ f_open' = f_open \cup {"r"}
    /\ parser' = [pos |-> 1, st |-> "start"]
    /\ clean_revisions' = <<>>
    /\ requests' = 0
    /\ rvcontinue' = -1
    /\ data' = NoData
    /\ revisions_data' = <<>>
    /\ revisions_written' = 0
    /\ api_log' = <<>>
    /\ req_log' = <<>>
    /\ pc' = "read"

\* The script with line 184 moved before line 183: the final file is opened
\* (and emptied) before pass 2 runs.
StartCleanFinalOpened ==
    /\ pc = "harvested"
    /\ OpenForReading
    /\ final' = [state |-> "open", content |-> <<>>]
    /\ UNCHANGED <<chunks_read, tz, f, run, chunk, revisions, tasks, results, order,
                   clean_results, chunks_done, error, doc, out1, out2>>

\* Line 183: the script goes on to pass 2.
StartClean ==
    /\ pc = "harvested"
    /\ OpenForReading
    /\ UNCHANGED <<chunks_read, tz, f, run, chunk, revisions, tasks, results, order,
                   clean_results, chunks_done, final, error, doc, out1, out2>>

\* clean_revisions_in_batches is called, by another process, on the file a
\* killed harvest left.
CleanLater ==
    /\ pc = "interrupted"
    /\ run' = 2
    /\ error' = "none"
    /\ OpenForReading
    /\ UNCHANGED <<chunks_read, tz, f, chunk, revisions, tasks, results, order,
                   clean_results, chunks_done, final, doc, out1, out2>>

\* Lines 155-158: the next chunk is read, sorted and submitted to the pool.
ReadChunk ==
    /\ pc = "read"
    /\ LET r == ReadItems(f, parser, chunk_size, <<>>)
       IN  /\ r.err = "none"
           /\ r.items # <<>>
           /\ parser' = r.parser
           /\ chunk' = r.items
           /\ chunks_read' = Append(chunks_read, r.items)
           /\ revisions' = process_chunk(r.items)
           /\ tasks' = [i \in 1..Len(r.items) |-> "queued"]
           /\ results' = [i \in 1..Len(r.items) |-> NoResult]
    /\ order' = <<>>
    /\ pc' = "map"
    /\ UNCHANGED <<req_log, tz, requests, rvcontinue, data, revisions_data,
                   revisions_written, f, f_open, api_log, run, clean_results,
                   clean_revisions, chunks_done, final, error, doc, out1, out2>>

\* Line 155 when the parser raises: the exception leaves both with blocks.
ReadFails ==
    /\ pc = "read"
    /\ LET r == ReadItems(f, parser, chunk_size, <<>>)
       IN  \/ r.err # "none" /\ error' = r.err
           \/ SyntaxErrorAhead(f, parser) /\ error' = "JSONError"
    /\ f_open' = f_open \ {"r"}
    /\ pc' = "failed"
    /\ UNCHANGED <<req_log, chunks_read, tz, requests, rvcontinue, data, revisions_data,
                   revisions_written, f, api_log, run, parser, chunk, revisions,
                   tasks, results, order, clean_results, clean_revisions,
                   chunks_done, final, doc, out1, out2>>

\* Line 155 when the parser is exhausted: the sentinel [] ends the loop, and
\* line 163 returns the list.
ReadEnds ==
    /\ pc = "read"
    /\ LET r == ReadItems(f, parser, chunk_size, <<>>)
       IN  /\ r.err = "none"
           /\ r.items = <<>>
           /\ parser' = r.parser
    /\ f_open' = f_open \ {"r"}
    /\ pc' = "cleaned"
    /\ UNCHANGED <<req_log, chunks_read, tz, requests, rvcontinue, data, revisions_data,
                   revisions_written, f, api_log, run, chunk, revisions, tasks,
                   results, order, clean_results, clean_revisions, chunks_done,
                   final, error, doc, out1, out2>>

Running == {i \in DOMAIN tasks : tasks[i] = "running"}
Queued == {i \in DOMAIN tasks : tasks[i] = "queued"}

\* Variant of StartTask for a pool without a limit of workers.
StartTaskUnlimited ==
    /\ pc = "map"
    /\ Queued # {}
    /\ LET i == CHOOSE j \in Queued : \A k \in Queued : j <= k
       IN  tasks' = [tasks EXCEPT ![i] = "running"]
    /\ UNCHANGED <<req_log, chunks_read, pc, tz, requests, rvcontinue, data, revisions_data,
                   revisions_written, f, f_open, api_log, run, parser, chunk,
                   revisions, results, order, clean_results, clean_revisions,
                   chunks_done, final, error, doc, out1, out2>>

\* A free worker takes the next call of the queue.
StartTask ==
    /\ pc = "map"
    /\ Queued # {}
    /\ Cardinality(Running) < N_WORKERS
    /\ LET i == CHOOSE j \in Queued : \A k \in Queued : j <= k
       IN  tasks' = [tasks EXCEPT ![i] = "running"]
    /\ UNCHANGED <<req_log, chunks_read, pc, tz, requests, rvcontinue, data, revisions_data,
                   revisions_written, f, f_open, api_log, run, parser, chunk,
                   revisions, results, order, clean_results, clean_revisions,
                   chunks_done, final, error, doc, out1, out2>>

\* A worker returns from clean_revision.
FinishTask ==
    /\ pc = "map"
    /\ \E i \in Running :
          /\ tasks' = [tasks EXCEPT ![i] = "done"]
          /\ results' = [results EXCEPT ![i] = clean_revision(revisions[i])]
          /\ order' = Append(order, i)
    /\ UNCHANGED <<req_log, chunks_read, pc, tz, requests, rvcontinue, data, revisions_data,
                   revisions_written, f, f_open, api_log, run, parser, chunk,
                   revisions, clean_results, clean_revisions, chunks_done,
                   final, error, doc, out1, out2>>

\* clean_revision raises in a worker (markup the parser cannot handle).
FailTask ==
    /\ pc = "map"
    /\ \E i \in Running :
          /\ tasks' = [tasks EXCEPT ![i] = "raised"]
          /\ order' = Append(order, i)
    /\ UNCHANGED <<req_log, chunks_read, pc, tz, requests, rvcontinue, data, revisions_data,
                   revisions_written, f, f_open, api_log, run, parser, chunk,
                   revisions, results, clean_results, clean_revisions,
                   chunks_done, final, error, doc, out1, out2>>

\* Lines 158-161: every call has returned; the results join the list.
Gather ==
    /\ pc = "map"
    /\ \A i \in DOMAIN tasks : tasks[i] = "done"
    /\ clean_results' = map_results(results, order)
    /\ clean_revisions' = clean_revisions \o map_results(results, order)
    /\ chunks_done' = chunks_done + 1
    /\ pc' = "read"
    /\ UNCHANGED <<req_log, chunks_read, tz, requests, rvcontinue, data, revisions_data,
                   revisions_written, f, f_open, api_log, run, parser, chunk,
                   revisions, tasks, results, order, final, error, doc, out1,
                   out2>>

\* Line 158 when a call raised: list() re-raises it on reaching that result.
GatherRaises ==
    /\ pc = "map"
    /\ \E i \in DOMAIN tasks :
          /\ tasks[i] = "raised"
          /\ \A j \in 1..(i - 1) : tasks[j] = "done"
    /\ error' = "clean_revision"
    /\ f_open' = f_open \ {"r"}
    /\ pc' = "failed"
    /\ UNCHANGED <<req_log, chunks_read, tz, requests, rvcontinue, data, revisions_data,
                   revisions_written, f, api_log, run, parser, chunk, revisions,
                   tasks, results, order, clean_results, clean_revisions,
                   chunks_done, final, doc, out1, out2>>

\* Line 184: the final file is opened for writing, which empties it.
OpenFinal ==
    /\ pc = "cleaned"
    /\ run = 1
    /\ final' = [state |-> "open", content |-> <<>>]
    /\ pc' = "dump"
    /\ UNCHANGED <<req_log, chunks_read, tz, requests, rvcontinue, data, revisions_data,
                   revisions_written, f, f_open, api_log, run, parser, chunk,
                   revisions, tasks, results, order, clean_results,
                   clean_revisions, chunks_done, error, doc, out1, out2>>

\* Line 185.
Dump ==
    /\ pc = "dump"
    /\ final' = [state |-> "written", content |-> clean_revisions]
    /\ pc' = "done"
    /\ UNCHANGED <<req_log, chunks_read, tz, requests, rvcontinue, data, revisions_data,
                   revisions_written, f, f_open, api_log, run, parser, chunk,
                   revisions, tasks, results, order, clean_results,
                   clean_revisions, chunks_done, error, doc, out1, out2>>

(***************************************************************************)
(* The script: pass 1, then pass 2, then the dump                          *)
(***************************************************************************)

Init ==
    /\ pc = "start"
    /\ tz \in Zones
    /\ requests = 0
    /\ rvcontinue = -1
    /\ data = NoData
    /\ revisions_data = <<>>
    /\ revisions_written = 0
    /\ f = <<>>
    /\ f_open = {}
    /\ api_log = <<>>
    /\ req_log = <<>>
    /\ chunks_read = <<>>
    /\ run = 1
    /\ parser = [pos |-> 1, st |-> "start"]
    /\ chunk = <<>>
    /\ revisions = <<>>
    /\ tasks = <<>>
    /\ results = <<>>
    /\ order = <<>>
    /\ clean_results = <<>>
    /\ clean_revisions = <<>>
    /\ chunks_done = 0
    /\ final = NoFinal
    /\ error = "none"
    /\ doc = <<>>
    /\ out1 = <<>>
    /\ out2 = <<>>

Next ==
    \/ OpenFile
    \/ Request
    \/ RequestFails
    \/ WriteRevisions
    \/ Continue
    \/ Finish
    \/ Interrupt
    \/ StartClean
    \/ CleanLater
    \/ ReadChunk
    \/ ReadFails
    \/ ReadEnds
    \/ StartTask
    \/ FinishTask
    \/ FailTask
    \/ Gather
    \/ GatherRaises
    \/ OpenFinal
    \/ Dump

Spec == Init /\ [][Next]_vars

\* Pass 1 alone.
NextHarvest ==
    \/ OpenFile
    \/ Request
    \/ RequestFails
    \/ WriteRevisions
    \/ Continue
    \/ Finish
    \/ Interrupt

\* The harvest loop has been left.
HarvestEnded == pc \notin {"start", "request", "write", "mark"}

\* A step of pass 1: it is possible wherever the loop has not been left, and
\* every step of NextHarvest moves pc.
LoopStep ==
    /\ ~HarvestEnded
    /\ \E p \in {"request", "write", "mark", "harvested", "failed",
                  "interrupted"} \ {pc} : pc' = p

\* Lines 81-135 are sequential code: the process takes its next step as long
\* as there is one (a kill is a step too).
SpecHarvest == Init /\ [][NextHarvest]_vars /\ WF_pc(LoopStep)

(***************************************************************************)
(* Harness of the text functions: steps 3-4 of clean_doc, applied twice    *)
(***************************************************************************)

Alphabet == {"a", "1", " ", "[", "]"}

RECURSIVE TextsOfLen(_)
TextsOfLen(n) ==
    IF n = 0 THEN {<<>>}
    ELSE {Append(t, c) : t \in TextsOfLen(n - 1), c \in Alphabet}

Texts == UNION {TextsOfLen(n) : n \in 0..MaxLen}

PipelineIdle ==
    /\ requests = 0
    /\ rvcontinue = -1
    /\ data = NoData
    /\ revisions_data = <<>>
    /\ revisions_written = 0
    /\ f = <<>>
    /\ f_open = {}
    /\ api_log = <<>>
    /\ req_log = <<>>
    /\ chunks_read = <<>>
    /\ run = 1
    /\ parser = [pos |-> 1, st |-> "start"]
    /\ chunk = <<>>
    /\ revisions = <<>>
    /\ tasks = <<>>
    /\ results = <<>>
    /\ order = <<>>
    /\ clean_results = <<>>
    /\ clean_revisions = <<>>
    /\ chunks_done = 0
    /\ final = NoFinal
    /\ error = "none"

InitText ==
    /\ pc = "text"
    /\ tz = UTC
    /\ doc \in Texts
    /\ out1 = <<>>
    /\ out2 = <<>>
    /\ PipelineIdle

\* Lines 54-61 on a text.
ApplySteps34 ==
    /\ pc = "text"
    /\ out1' = Steps34(doc)
    /\ pc' = "text_once"
    /\ UNCHANGED <<req_log, chunks_read, tz, requests, rvcontinue, data, revisions_data,
                   revisions_written, f, f_open, api_log, run, parser, chunk,
                   revisions, tasks, results, order, clean_results,
                   clean_revisions, chunks_done, final, error, doc, out2>>

\* Lines 54-61 on their own output.
ApplySteps34Again ==
    /\ pc = "text_once"
    /\ out2' = Steps34(out1)
    /\ pc' = "text_twice"
    /\ UNCHANGED <<req_log, chunks_read, tz, requests, rvcontinue, data, revisions_data,
                   revisions_written, f, f_open, api_log, run, parser, chunk,
                   revisions, tasks, results, order, clean_results,
                   clean_revisions, chunks_done, final, error, doc, out1>>

NextText == ApplySteps34 \/ ApplySteps34Again

SpecText == InitText /\ [][NextText]_vars

(***************************************************************************)
(* Harness of the truncation: clean_doc on texts that carry the markers    *)
(***************************************************************************)

MaxBlocks == 3      \* blocks a text of this harness is made of

\* The pieces the texts are made of: the three markers, a marker's words
\* without the newline, and single characters.
Blocks ==
    {NotesMarker, LinksMarker, RefsMarker,
     <<"R", "e", "f", "e", "r", "e", "n", "c", "e", "s">>,
     <<"\n">>, <<" ">>, <<"a">>, <<"1">>, <<"[", "1", "]">>}

RECURSIVE BlockTextsOfLen(_)
BlockTextsOfLen(n) ==
    IF n = 0 THEN {<<>>}
    ELSE {t \o b : t \in BlockTextsOfLen(n - 1), b \in Blocks}

MarkerTexts == UNION {BlockTextsOfLen(n) : n \in 0..MaxBlocks}

InitTrunc ==
    /\ pc = "trunc"
    /\ tz = UTC
    /\ doc \in MarkerTexts
    /\ out1 = <<>>
    /\ out2 = <<>>
    /\ PipelineIdle

\* Lines 48-50 on a text.
ApplyTruncate ==
    /\ pc = "trunc"
    /\ out2' = Truncate(doc)
    /\ pc' = "truncated"
    /\ UNCHANGED <<req_log, chunks_read, tz, requests, rvcontinue, data, revisions_data,
                   revisions_written, f, f_open, api_log, run, parser, chunk,
                   revisions, tasks, results, order, clean_results,
                   clean_revisions, chunks_done, final, error, doc, out1>>

\* Lines 54-63 on the truncated text.
ApplyRest ==
    /\ pc = "truncated"
    /\ out1' = Steps34(out2)
    /\ pc' = "trunc_done"
    /\ UNCHANGED <<req_log, chunks_read, tz, requests, rvcontinue, data, revisions_data,
                   revisions_written, f, f_open, api_log, run, parser, chunk,
                   revisions, tasks, results, order, clean_results,
                   clean_revisions, chunks_done, final, error, doc, out2>>

NextTrunc == ApplyTruncate \/ ApplyRest

SpecTrunc == InitTrunc /\ [][NextTrunc]_vars

(***************************************************************************)
(* Harness of get_latest_revisions (get_latest_revision_text.py)           *)
(***************************************************************************)

MaxTitles == 2      \* titles of one call

\* Titles a caller may pass: with an underscore, with a lower-case first
\* letter, and in the form the API itself uses.
TitlePool ==
    {<<"A", "_", "B">>, <<"A", " ", "B">>, <<"b">>, <<"B">>}

Upper(c) == IF c = "b" THEN "B" ELSE c

\* The API's normalisation of a title: underscores become spaces and the
\* first letter becomes a capital.
Normalize(t) ==
    [i \in 1..Len(t) |->
        IF t[i] = "_" THEN " " ELSE IF i = 1 THEN Upper(t[i]) ELSE t[i]]

\* The text the extracts API holds for the page of a normalised title.
Extract(title) == <<"x">> \o title

\* The lists of distinct titles a caller may pass.
TitleLists ==
    UNION {{s \in [1..n -> TitlePool] :
               \A i, j \in 1..n : i # j => s[i] # s[j]} : n \in 1..MaxTitles}

\* The orders in which the response may list the elements of a set.
OrdersOf(S) ==
    {s \in [1..Cardinality(S) -> S] :
        \A i, j \in 1..Cardinality(S) : i # j => s[i] # s[j]}

\* query.normalized of the response: one entry per title the API changed,
\* in the order of the request.
NormalizedOf(titles) ==
    LET changed == SelectSeq(titles, LAMBDA t : Normalize(t) # t)
    IN  [i \in 1..Len(changed) |->
            [from |-> changed[i], to |-> Normalize(changed[i])]]

\* The responses the API may give to a request for the titles: one page per
\* normalised title, with or without an extract (a missing page or a
\* redirect has none); the key 'normalized' is there only if a title was
\* changed.
Responses(titles) ==
    LET wanted == {Normalize(titles[i]) : i \in 1..Len(titles)}
    IN  {[has_normalized |-> NormalizedOf(titles) # <<>>,
          normalized |-> NormalizedOf(titles),
          pages |-> [i \in 1..Len(o) |->
                        [title |-> o[i], has_extract |-> o[i] \in with]]] :
            o \in OrdersOf(wanted), with \in SUBSET wanted}

\* str.__contains__ (line 51): a occurs in b.
IsSubstring(a, b) == a = <<>> \/ Find(b, a) # 0

\* article_texts[key] = value on a dict held as a set of <<key, value>>.
DictSet(d, key, value) == {p \in d : p[1] # key} \cup {<<key, value>>}

\* Lines 49-59 for one page: the dict after the iteration.
page_iteration(article_texts, response_json, inner_dict) ==
    IF ~response_json.has_normalized THEN article_texts
    ELSE LET hits == {k \in 1..Len(response_json.normalized) :
                         IsSubstring(inner_dict.title,
                                     response_json.normalized[k].to)}
         IN  IF hits = {} THEN article_texts
             ELSE LET first == CHOOSE k \in hits : \A j \in hits : k <= j
                      original_title == response_json.normalized[first].from
                  IN  IF inner_dict.has_extract
                      THEN DictSet(article_texts, original_title,
                                   Extract(inner_dict.title))
                      ELSE article_texts

\* The caller's titles are in doc, the response in out1, and the loop's
\* state (the dict and the number of pages done) in out2.
InitLatest ==
    /\ pc = "latest"
    /\ tz = UTC
    /\ doc \in TitleLists
    /\ out1 = <<>>
    /\ out2 = <<>>
    /\ PipelineIdle

\* Lines 41-45.
RequestLatest ==
    /\ pc = "latest"
    /\ out1' \in Responses(doc)
    /\ out2' = [article_texts |-> {}, done |-> 0]
    /\ pc' = "pages"
    /\ UNCHANGED <<req_log, chunks_read, tz, requests, rvcontinue, data, revisions_data,
                   revisions_written, f, f_open, api_log, run, parser, chunk,
                   revisions, tasks, results, order, clean_results,
                   clean_revisions, chunks_done, final, error, doc>>

\* Lines 46-59: one iteration of the loop over the pages.
NextPage ==
    /\ pc = "pages"
    /\ out2.done < Len(out1.pages)
    /\ out2' = [article_texts |->
                    page_iteration(out2.article_texts, out1,
                                   out1.pages[out2.done + 1]),
                done |-> out2.done + 1]
    /\ UNCHANGED <<req_log, chunks_read, pc, tz, requests, rvcontinue, data, revisions_data,
                   revisions_written, f, f_open, api_log, run, parser, chunk,
                   revisions, tasks, results, order, clean_results,
                   clean_revisions, chunks_done, final, error, doc, out1>>

\* Line 61.
ReturnTexts ==
    /\ pc = "pages"
    /\ out2.done = Len(out1.pages)
    /\ pc' = "returned"
    /\ UNCHANGED <<req_log, chunks_read, tz, requests, rvcontinue, data, revisions_data,
                   revisions_written, f, f_open, api_log, run, parser, chunk,
                   revisions, tasks, results, order, clean_results,
                   clean_revisions, chunks_done, final, error, doc, out1, out2>>

NextLatest == RequestLatest \/ NextPage \/ ReturnTexts

SpecLatest == InitLatest /\ [][NextLatest]_vars

(***************************************************************************)
(* Harness of the timestamp conversion: write_revisions on one revision    *)
(***************************************************************************)

TimeInputs ==
    {ApiTimestamp(Y, m, d, H, M, S) :
        Y \in {1970, 2020, 2021}, m \in {1, 2, 3, 12}, d \in {1, 28},
        H \in {0, 23}, M \in {0, 59}, S \in {0, 59}}
    \cup ApiTimes

InitTime ==
    /\ pc = "time"
    /\ tz \in Zones
    /\ doc \in TimeInputs
    /\ out1 = <<>>
    /\ out2 = <<>>
    /\ PipelineIdle

\* Lines 66-78 on a page of one revision.
ConvertTimestamp ==
    /\ pc = "time"
    /\ out1' = write_revisions(<<[timestamp |-> doc, content |-> Content(1)]>>, tz)
    /\ pc' = "time_done"
    /\ UNCHANGED <<req_log, chunks_read, tz, requests, rvcontinue, data, revisions_data,
                   revisions_written, f, f_open, api_log, run, parser, chunk,
                   revisions, tasks, results, order, clean_results,
                   clean_revisions, chunks_done, final, error, doc, out2>>

NextTime == ConvertTimestamp

SpecTime == InitTime /\ [][NextTime]_vars

(***************************************************************************)
(* Properties                                                              *)
(***************************************************************************)

\* The records of a file, in the order they were written.
Records(file) ==
    LET recs == SelectSeq(file, LAMBDA piece : piece.k = "rec")
    IN  [i \in 1..Len(recs) |-> recs[i].e]

HasTail(file) == \E i \in 1..Len(file) : file[i].k = "tail"

\* The revisions of the API's answers that carry both fields.
CompleteRevisions ==
    SelectSeq(api_log, LAMBDA r : "timestamp" \in r.keys /\ "*" \in r.keys)

\* C1: once the harvest completes, the records of the persisted collection
\* are exactly the revisions that carry both a timestamp and a content, page
\* by page in the order the API returned them: incomplete revisions are
\* dropped, no complete one is lost, duplicated or reordered.
C1_RecordsAreCompleteRevisions ==
    pc = "harvested" =>
        /\ Len(Records(f)) = Len(CompleteRevisions)
        /\ \A i \in 1..Len(CompleteRevisions) :
              /\ Records(f)[i].content = CompleteRevisions[i].content
              /\ Records(f)[i].timestamp =
                     unix_timestamp(CompleteRevisions[i].timestamp, tz)

C1_Witness ==
    /\ pc = "harvested"
    /\ requests >= 2
    /\ Len(CompleteRevisions) >= 2
    /\ Len(CompleteRevisions) < Len(api_log)

\* The pieces of a well-formed array of the given records.
RECURSIVE ArrayBody(_)
ArrayBody(recs) ==
    IF recs = <<>> THEN <<>>
    ELSE IF Len(recs) = 1 THEN <<RecPiece(recs[1])>>
    ELSE <<RecPiece(recs[1]), SepPiece>> \o ArrayBody(Tail(recs))

\* C2: once the end marker is written the file is a single well-formed
\* array: the start marker, the records with exactly one separator between
\* two consecutive records and none before the first or after the last, and
\* the end marker.
C2_ValidArray ==
    pc = "harvested" =>
        f = <<HeadPiece>> \o ArrayBody(Records(f)) \o <<TailPiece>>

\* C3: the end marker is written at most once, only after the records of
\* the terminal page (the page whose response has no continuation token),
\* and nothing is written after it.
C3_EndMarkerOnceAndLast ==
    LET tails == {i \in 1..Len(f) : f[i].k = "tail"}
        n == Len(Records(f))
        m == Len(revisions_data)
    IN  /\ Cardinality(tails) <= 1
        /\ tails # {} =>
              /\ tails = {Len(f)}
              /\ pc \notin {"start", "request", "write", "mark", "interrupted"}
        /\ pc = "harvested" =>
              /\ tails # {}
              /\ data.continue = -1
              /\ n = revisions_written
              /\ m <= n
              /\ \A i \in 1..m :
                    Records(f)[n - m + i] = revision_entry(revisions_data[i], tz)

C3_Witness ==
    /\ pc = "harvested"
    /\ requests = 2
    /\ Len(revisions_data) >= 1
    /\ Len(Records(f)) > Len(revisions_data)
    /\ f[Len(f)].k = "tail"

\* C4: clean_revisions_in_batches on a collection without its end marker
\* ends in an error and never returns a list: it does not reach its return,
\* and each time it reads it gets a full chunk or an exception, never the
\* end of the array, so that it fails once the file is used up.
C4_TruncatedNeverReturns ==
    ~HasTail(f) =>
        /\ pc \notin {"cleaned", "dump", "done"}
        /\ pc = "read" =>
              LET r == ReadItems(f, parser, chunk_size, <<>>)
              IN  r.err # "none" \/ Len(r.items) = chunk_size

C4_Witness ==
    /\ run = 2
    /\ ~HasTail(f)
    /\ Len(Records(f)) >= 1
    /\ pc = "failed"
    /\ error = "IncompleteJSONError"

\* C5: when pass 2 is started on a collection without its end marker, no
\* revision of it is handed to a worker before the error is raised.
C5_NoWorkOnTruncated ==
    (run = 2 /\ ~HasTail(f)) =>
        \A i \in DOMAIN tasks : tasks[i] = "queued"

\* C6: the cleaned revisions of a chunk come out in the order of the chunk
\* sorted by timestamp, each with the timestamp of the revision at the same
\* sorted position, whatever the order in which the workers finished.
C6_ChunkOrderKept ==
    (pc = "read" /\ chunks_done > 0) =>
        /\ Len(clean_results) = Len(chunk)
        /\ Len(revisions) = Len(chunk)
        /\ {revisions[i] : i \in 1..Len(revisions)} =
               {<<chunk[i].timestamp, chunk[i].content>> : i \in 1..Len(chunk)}
        /\ \A i, j \in 1..Len(revisions) :
              i < j => revisions[i][1] <= revisions[j][1]
        /\ \A i \in 1..Len(chunk) :
              /\ clean_results[i][1] = revisions[i][1]
              /\ clean_results[i][2] = clean_doc(strip_code(revisions[i][2]))

C6_Witness ==
    /\ pc = "read"
    /\ chunks_done > 0
    /\ N_WORKERS > 1
    /\ Len(chunk) >= 2
    /\ chunk[1].timestamp > chunk[2].timestamp
    /\ order[1] # 1

\* C7: the list clean_revisions_in_batches returns is ordered from older to
\* newer over its whole length, across chunk boundaries too.
C7_OutputChronological ==
    pc \in {"cleaned", "dump", "done"} =>
        \A i, j \in 1..Len(clean_revisions) :
            i < j => clean_revisions[i][1] <= clean_revisions[j][1]

\* C8: when the pipeline stops on a failed request, a truncated collection
\* or a failed normalization, the final file is untouched or holds the
\* complete corpus, never a part of it.
C8_NoPartialFinal ==
    pc = "failed" =>
        \/ final = NoFinal
        \/ final = [state |-> "written", content |-> clean_revisions]

C8_Witness ==
    /\ pc = "failed"
    /\ run = 1
    /\ error = "clean_revision"
    /\ chunks_done >= 1
    /\ final = NoFinal

\* C9: write_revisions persists every timestamp as the epoch seconds of the
\* instant it names in UTC, whatever the machine's time zone;
\* 2020-01-01T00:00:00Z is persisted as 1577836800.
C9_EpochSecondsOfUtc ==
    pc = "time_done" =>
        /\ out1[1].e.timestamp = InstantOf(doc)
        /\ doc = ApiTimestamp(2020, 1, 1, 0, 0, 0) =>
              out1[1].e.timestamp = 1577836800

\* C10: steps 3-4 of clean_doc are idempotent on their own output.
C10_Steps34Idempotent ==
    pc = "text_twice" => out2 = out1

\* C11: for every text that contains "References\n", the output of clean_doc
\* has nothing of the text from the first occurrence of that marker onward:
\* the truncated text is a prefix that ends before the marker, and the output
\* is the output for the text cut just before the marker, whatever other
\* markers the text carries.
C11_NothingAfterReferences ==
    (pc = "trunc_done" /\ Find(doc, RefsMarker) # 0) =>
        LET idx == Find(doc, RefsMarker)
        IN  /\ Len(out2) < idx
            /\ out2 = SubSeq(doc, 1, Len(out2))
            /\ out1 = clean_doc(SubSeq(doc, 1, idx - 1))

\* A text with text before the references, and the other two markers after
\* them, was cleaned.
C11_Witness ==
    /\ pc = "trunc_done"
    /\ doc = <<"a">> \o RefsMarker \o NotesMarker
    /\ out1 = <<"a">>

\* C12: at no point of either pass does the pipeline hold the full history in
\* memory: pass 1 holds the revisions of one page only, and in pass 2 the
\* revisions held (cleaned ones included) never amount to the whole of a
\* collection that is longer than one chunk.
C12_NeverFullHistoryInMemory ==
    /\ pc \in {"write", "mark"} => Len(revisions_data) <= Len(data.revisions)
    /\ (pc \in {"read", "map", "cleaned", "dump", "done"}
            /\ Len(Records(f)) > chunk_size)
          => Len(clean_revisions) < Len(Records(f))

\* The states of pass 2 and after it.
InPass2 ==
    \/ pc \in {"read", "map", "cleaned", "dump", "done"}
    \/ pc = "failed" /\ error \notin {"JSONDecodeError", "KeyError"}

\* C13: the two passes never overlap on the persisted collection: the file
\* is never open for writing and for reading at once, pass 2 opens it only
\* after pass 1 has written the end marker and closed its handle, and in a
\* run whose pass 1 did not reach the end marker pass 2 is never started.
C13_PassesNeverOverlap ==
    /\ ~({"w", "r"} \subseteq f_open)
    /\ (run = 1 /\ "r" \in f_open) => (HasTail(f) /\ "w" \notin f_open)
    /\ (run = 1 /\ InPass2) => (HasTail(f) /\ "w" \notin f_open)
    /\ (run = 1 /\ ~HasTail(f)) =>
          ("r" \notin f_open /\ chunks_read = <<>> /\ clean_revisions = <<>>)

\* Pass 2 is at work on the file of a harvest that wrote several pages.
C13_Witness ==
    /\ run = 1
    /\ pc = "map"
    /\ f_open = {"r"}
    /\ HasTail(f)
    /\ Len(SelectSeq(f, LAMBDA piece : piece.k = "sep")) >= 1

\* C14: get_latest_revisions returns a dict from requested title to text:
\* for every title of the request whose page in the response carries an
\* extract, the result has an entry keyed by that title as the caller passed
\* it, whose value is that page's extract, whether or not the API had to
\* normalise the title; and the dict has one value per key and no other keys.
C14_KeyedByRequestedTitle ==
    pc = "returned" =>
        /\ \A i \in 1..Len(doc) :
              (\E k \in 1..Len(out1.pages) :
                    /\ out1.pages[k].title = Normalize(doc[i])
                    /\ out1.pages[k].has_extract)
                 => <<doc[i], Extract(Normalize(doc[i]))>> \in out2.article_texts
        /\ \A p \in out2.article_texts :
              /\ \E i \in 1..Len(doc) : doc[i] = p[1]
              /\ \A q \in out2.article_texts : q[1] = p[1] => q = p

\* C15: in the harvest loop the first request carries no continuation token
\* and every later request carries the token of the response just before
\* it; another request is issued if and only if the last response carried a
\* token, so a completed harvest made as many requests as there are pages up
\* to and including the first one without a token, and the harvest ends
\* as the API returns a page without a token within MaxPages requests.
\* First the part about the tokens, as a predicate of a state.
TokensChain ==
    pc \in {"request", "write", "mark", "harvested"} =>
        /\ Len(req_log) = requests
        /\ req_log # <<>> => req_log[1].sent = -1
        /\ \A i \in 2..Len(req_log) : req_log[i].sent = req_log[i - 1].got
        /\ \A i \in 1..(Len(req_log) - 1) : req_log[i].got # -1
        /\ pc = "request" =>
              (req_log # <<>> =>
                  /\ req_log[Len(req_log)].got # -1
                  /\ rvcontinue = req_log[Len(req_log)].got)
        /\ pc = "harvested" =>
              /\ req_log # <<>>
              /\ req_log[Len(req_log)].got = -1

C15_PaginationFollowsTokens == []TokensChain /\ <>HarvestEnded

\* A harvest of three pages has completed.
C15_Witness ==
    /\ pc = "harvested"
    /\ Len(req_log) = 3
    /\ req_log[2].sent # -1
    /\ req_log[3].sent # req_log[2].sent

\* C16: when a response of the harvest is malformed or lacks the expected
\* keys, the harvest aborts with an error and does not retry: the step that
\* meets the response leaves the loop, writes nothing (no end marker, the
\* records of earlier pages stay as they were) and closes the file, and no
\* request and no write follows it.
C16_MalformedResponseAborts ==
    [][/\ (error = "none" /\ error' \in {"JSONDecodeError", "KeyError"}) =>
             /\ pc' = "failed"
             /\ f' = f
             /\ ~HasTail(f')
             /\ f_open' = {}
       /\ error \in {"JSONDecodeError", "KeyError"} =>
             /\ requests' = requests
             /\ f' = f
             /\ pc' = pc]_vars

\* The second response of a harvest was malformed, after a page with
\* records had been written.
C16_Witness ==
    /\ pc = "failed"
    /\ error = "KeyError"
    /\ requests = 2
    /\ Len(Records(f)) >= 1
    /\ ~HasTail(f)

\* The records the reader has taken from the file so far.
RecordsRead == Flatten(chunks_read)

\* C17: in pass 2 at most one chunk is in flight: the driver reads the next
\* chunk only after every revision of the current chunk has been cleaned and
\* its results appended to the output, and at most N_WORKERS revisions are
\* being cleaned at the same time.
C17_OneChunkInFlight ==
    /\ Cardinality(Running) <= N_WORKERS
    /\ pc = "read" =>
          /\ \A i \in DOMAIN tasks : tasks[i] = "done"
          /\ Len(clean_revisions) = Len(RecordsRead)
          /\ chunks_done = Len(chunks_read)
    /\ pc = "map" =>
          /\ chunks_read # <<>>
          /\ chunk = chunks_read[Len(chunks_read)]
          /\ Len(tasks) = Len(chunk)
          /\ Len(clean_revisions) = Len(RecordsRead) - Len(chunk)
          /\ chunks_done = Len(chunks_read) - 1

\* The workers are all busy on a chunk that holds more revisions than there
\* are workers.
C17_Witness ==
    /\ pc = "map"
    /\ Cardinality(Running) = N_WORKERS
    /\ Queued # {}

\* The reader of pass 2 has come to its end: exhausted, or stopped by its
\* own error.
ReaderEnded ==
    \/ pc \in {"cleaned", "dump", "done"}
    \/ pc = "failed" /\ error \in {"JSONError", "IncompleteJSONError"}

\* C18: for a completed persisted collection of L records and chunk size N
\* the chunked reader yields exactly ceil(L/N) chunks, none of them empty,
\* every chunk but the last of size N, and their concatenation in order is
\* the record sequence of the collection (L = 0 and L a multiple of N
\* included).
C18_ChunksCoverCollection ==
    (run = 1 /\ HasTail(f) /\ ReaderEnded) =>
        LET L == Len(Records(f))
        IN  /\ Len(chunks_read) = (L + chunk_size - 1) \div chunk_size
            /\ \A k \in 1..Len(chunks_read) : chunks_read[k] # <<>>
            /\ \A k \in 1..(Len(chunks_read) - 1) :
                  Len(chunks_read[k]) = chunk_size
            /\ RecordsRead = Records(f)

\* The three markers in every order of application.
MarkerOrders ==
    {o \in [1..3 -> {NotesMarker, LinksMarker, RefsMarker}] :
        \A i, j \in 1..3 : i # j => o[i] # o[j]}

\* Lines 48-50 with the markers taken in the order o.
TruncateInOrder(d, o) ==
    remove_everything_after(
        remove_everything_after(
            remove_everything_after(d, o[1]), o[2]), o[3])

\* The positions of d where one of the three markers begins.
MarkerStarts(d) ==
    {i \in 1..Len(d) :
        \E m \in {NotesMarker, LinksMarker, RefsMarker} :
            /\ i + Len(m) - 1 <= Len(d)
            /\ SubSeq(d, i, i + Len(m) - 1) = m}

\* The prefix of d that ends just before the earliest marker, d if none.
EarliestPrefix(d) ==
    IF MarkerStarts(d) = {} THEN d
    ELSE LET first == CHOOSE i \in MarkerStarts(d) :
                          \A j \in MarkerStarts(d) : i <= j
         IN  SubSeq(d, 1, first - 1)

\* C19: the result of the three truncations of clean_doc does not depend on
\* the order of the markers: in every order it is the prefix of the text that
\* ends just before the earliest first occurrence of any of the three
\* markers, and the whole text when none occurs.
C19_TruncationOrderIndependent ==
    pc \in {"truncated", "trunc_done"} =>
        /\ out2 = EarliestPrefix(doc)
        /\ \A o \in MarkerOrders : TruncateInOrder(doc, o) = out2

\* A text was truncated in which a marker occurs twice and the marker the
\* code applies last comes first.
C19_Witness ==
    /\ pc = "truncated"
    /\ doc = RefsMarker \o NotesMarker \o RefsMarker
    /\ out2 = <<>>

\* The cleaned form of an entry of the file.
CleanedEntry(e) == clean_revision(<<e.timestamp, e.content>>)

\* The position of entry i of the last chunk in the results gathered for it
\* (the contents of the revisions are distinct).
PositionInResults(i) ==
    CHOOSE p \in 1..Len(clean_results) : clean_results[p] = CleanedEntry(chunk[i])

\* C20: revisions of one chunk that have equal timestamps keep their relative
\* order from the file in the cleaned output, and a chunk already in
\* non-decreasing timestamp order is emitted in exactly its input order.
C20_SortIsStable ==
    (pc = "read" /\ chunks_done >= 1) =>
        /\ Len(clean_results) = Len(chunk)
        /\ SubSeq(clean_revisions, Len(clean_revisions) - Len(chunk) + 1,
                  Len(clean_revisions)) = clean_results
        /\ \A i \in 1..Len(chunk) :
              \E p \in 1..Len(clean_results) :
                  clean_results[p] = CleanedEntry(chunk[i])
        /\ \A i, j \in 1..Len(chunk) :
              (i < j /\ chunk[i].timestamp = chunk[j].timestamp)
                  => PositionInResults(i) < PositionInResults(j)
        /\ (\A i \in 1..(Len(chunk) - 1) :
                chunk[i].timestamp <= chunk[i + 1].timestamp)
              => clean_results = [i \in 1..Len(chunk) |-> CleanedEntry(chunk[i])]

\* A chunk that is out of order and holds two revisions of equal timestamp
\* was cleaned, and the first worker to finish was not the first one called.
C20_Witness ==
    /\ pc = "read"
    /\ chunks_done >= 1
    /\ \E i, j \in 1..Len(chunk) : i < j /\ chunk[i].timestamp = chunk[j].timestamp
    /\ \E i \in 1..(Len(chunk) - 1) : chunk[i].timestamp > chunk[i + 1].timestamp
    /\ order # <<>>
    /\ order[1] # 1

====
